---- MODULE Spec2Model ----
(***************************************************************************)
(* N8N Workflow Analyzer: the session state machine of App.tsx, the fix    *)
(* selection store, the document patcher (lodash set on a deep copy) and   *)
(* the analyzer boundary of services/geminiService.ts.                     *)
(*                                                                         *)
(* Texts are sequences of lexical tokens; JSON values are tagged records;  *)
(* JavaScript objects that can be shared between two owners live in named  *)
(* heap cells and are reached through references.                          *)
(***************************************************************************)
EXTENDS Integers, Sequences, FiniteSets, TLC

(***************************************************************************)
(* Bounds of the model.                                                    *)
(***************************************************************************)
\* pending FileReader loads that may be outstanding at once
MaxReads == 1
\* credential dialogs (openSelectKey) that may be outstanding at once
MaxSelects == 1
\* analyzer requests that may be outstanding at once (the code has no cap)
MaxPending == 2

(***************************************************************************)
(* JSON values (types.ts: newValue is `any`, the workflow is a JSON tree). *)
(***************************************************************************)
JNull == [t |-> "null"]
JUndef == [t |-> "undef"]
JBool(b) == [t |-> "bool", b |-> b]
JNum(n) == [t |-> "num", n |-> n]
JStr(s) == [t |-> "str", s |-> s]
\* an object: own keys in enumeration order, and their values
JObj(ks, vs) == [t |-> "obj", ks |-> ks, vs |-> vs]
\* an array: elements (JUndef marks a hole), and non-index own properties
JArr(vs, pk, pv) == [t |-> "arr", vs |-> vs, pk |-> pk, pv |-> pv]
\* a reference to the object held in heap cell c
Ref(c) == [t |-> "ref", c |-> c]

IsContainer(v) == v.t \in {"obj", "arr"}

\* decimal numerals of the model and their value
DecVal == ("0" :> 0) @@ ("1" :> 1) @@ ("2" :> 2) @@ ("3" :> 3)
DecStr(n) == CHOOSE k \in DOMAIN DecVal : DecVal[k] = n

\* array-index keys and their numeric value (lodash isIndex / JS integer keys)
IdxVal == DecVal
IsIndex(k) == k \in DOMAIN IdxVal

\* position of key k in the key sequence ks, 0 when absent
KeyPos(ks, k) ==
  IF \E i \in 1..Len(ks) : ks[i] = k
    THEN CHOOSE i \in 1..Len(ks) : ks[i] = k
    ELSE 0

InsertAt(s, i, e) == SubSeq(s, 1, i - 1) \o <<e>> \o SubSeq(s, i, Len(s))

\* where a new own key lands in an object's enumeration order: integer keys
\* ascending first, then string keys in insertion order
NewKeyPos(ks, k) ==
  IF IsIndex(k)
    THEN 1 + Cardinality({i \in 1..Len(ks) : IsIndex(ks[i]) /\ IdxVal[ks[i]] < IdxVal[k]})
    ELSE Len(ks) + 1

\* o[k] = v on a plain list of keys and values
KeysPut(ks, vs, k, v) ==
  LET i == KeyPos(ks, k) IN
  IF i > 0
    THEN [ks |-> ks, vs |-> [vs EXCEPT ![i] = v]]
    ELSE LET j == NewKeyPos(ks, k) IN
         [ks |-> InsertAt(ks, j, k), vs |-> InsertAt(vs, j, v)]

RECURSIVE Holes(_)
Holes(n) == IF n <= 0 THEN <<>> ELSE <<JUndef>> \o Holes(n - 1)

\* c[k] for an own property of container c (undefined when absent)
GetProp(c, k) ==
  IF c.t = "obj"
    THEN (IF KeyPos(c.ks, k) > 0 THEN c.vs[KeyPos(c.ks, k)] ELSE JUndef)
  ELSE IF IsIndex(k)
    THEN (IF IdxVal[k] < Len(c.vs) THEN c.vs[IdxVal[k] + 1] ELSE JUndef)
  ELSE (IF KeyPos(c.pk, k) > 0 THEN c.pv[KeyPos(c.pk, k)] ELSE JUndef)

ObjOf(kv) == JObj(kv.ks, kv.vs)
ArrOf(vs, kv) == JArr(vs, kv.ks, kv.vs)

\* c[k] = v for container c
PutProp(c, k, v) ==
  IF c.t = "obj" THEN ObjOf(KeysPut(c.ks, c.vs, k, v))
  ELSE IF IsIndex(k)
    THEN (IF IdxVal[k] < Len(c.vs)
            THEN JArr([c.vs EXCEPT ![IdxVal[k] + 1] = v], c.pk, c.pv)
            ELSE JArr(c.vs \o Holes(IdxVal[k] - Len(c.vs)) \o <<v>>, c.pk, c.pv))
  ELSE ArrOf(c.vs, KeysPut(c.pk, c.pv, k, v))

(***************************************************************************)
(* Texts: sequences of lexical tokens.                                     *)
(***************************************************************************)
LB == <<"{">>
RB == <<"}">>
LK == <<"[">>
RK == <<"]">>
CO == <<":">>
CM == <<",">>
WS == <<" ">>
NL == <<"\n">>
\* a string literal with content c, a numeral d, a bare word w
S(c) == <<"s", c>>
N(d) == <<"n", d>>
W(w) == <<"w", w>>
\* the markdown code-fence markers: the opening one with its json tag, the closing one
FenceOpen == <<"fence-json">>
FenceClose == <<"fence">>

IsWs(tok) == tok \in {WS, NL}

RECURSIVE SkipWs(_)
SkipWs(s) == IF s # <<>> /\ IsWs(Head(s)) THEN SkipWs(Tail(s)) ELSE s

RECURSIVE DropTrailingWs(_)
DropTrailingWs(s) ==
  IF s # <<>> /\ IsWs(s[Len(s)]) THEN DropTrailingWs(SubSeq(s, 1, Len(s) - 1)) ELSE s

\* String.prototype.trim
Trim(s) == DropTrailingWs(SkipWs(s))

Peek(s) == IF s = <<>> THEN <<"eof">> ELSE Head(s)

(***************************************************************************)
(* JSON.parse: a recursive-descent parser over the tokens.                 *)
(***************************************************************************)
ParseFail == [ok |-> FALSE, v |-> JUndef, rest |-> <<>>]
ParseOk(v, rest) == [ok |-> TRUE, v |-> v, rest |-> rest]

RECURSIVE ParseValue(_), ParseMembers(_, _, _), ParseElements(_, _)

\* a value whose first token is h, followed by the tokens r
ParseFrom(h, r) ==
  IF h = LB
    THEN (IF Peek(SkipWs(r)) = RB
            THEN ParseOk(JObj(<<>>, <<>>), Tail(SkipWs(r)))
            ELSE ParseMembers(r, <<>>, <<>>))
  ELSE IF h = LK
    THEN (IF Peek(SkipWs(r)) = RK
            THEN ParseOk(JArr(<<>>, <<>>, <<>>), Tail(SkipWs(r)))
            ELSE ParseElements(r, <<>>))
  ELSE IF h[1] = "s" THEN ParseOk(JStr(h[2]), r)
  ELSE IF h[1] = "n" /\ h[2] \in DOMAIN DecVal THEN ParseOk(JNum(DecVal[h[2]]), r)
  ELSE IF h = W("true") THEN ParseOk(JBool(TRUE), r)
  ELSE IF h = W("false") THEN ParseOk(JBool(FALSE), r)
  ELSE IF h = W("null") THEN ParseOk(JNull, r)
  ELSE ParseFail

Rest(t) == IF t = <<>> THEN <<>> ELSE Tail(t)
ParseTokens(t) == ParseFrom(Peek(t), Rest(t))

ParseValue(s) == ParseTokens(SkipWs(s))

\* after a member or element: "," continues with more, the closer ends
MemberEnd(w, kv) ==
  IF Peek(w) = CM THEN ParseMembers(Tail(w), kv.ks, kv.vs)
  ELSE IF Peek(w) = RB THEN ParseOk(ObjOf(kv), Tail(w))
  ELSE ParseFail

MemberValue(key, pv, ks, vs) ==
  IF ~pv.ok THEN ParseFail
  ELSE MemberEnd(SkipWs(pv.rest), KeysPut(ks, vs, key, pv.v))

\* a member with key token k followed by the tokens u
Member(k, u, ks, vs) ==
  IF k[1] # "s" \/ Peek(u) # CO THEN ParseFail
  ELSE MemberValue(k[2], ParseValue(Tail(u)), ks, vs)

MemberTokens(t, ks, vs) == Member(Peek(t), SkipWs(Rest(t)), ks, vs)

\* the members of an object after "{" or ",": key ":" value, then "," or "}"
ParseMembers(s, ks, vs) == MemberTokens(SkipWs(s), ks, vs)

ElementEnd(w, vs) ==
  IF Peek(w) = CM THEN ParseElements(Tail(w), vs)
  ELSE IF Peek(w) = RK THEN ParseOk(JArr(vs, <<>>, <<>>), Tail(w))
  ELSE ParseFail

ElementValue(pv, vs) ==
  IF ~pv.ok THEN ParseFail ELSE ElementEnd(SkipWs(pv.rest), Append(vs, pv.v))

\* the elements of an array after "[" or ",": value, then "," or "]"
ParseElements(s, vs) == ElementValue(ParseValue(s), vs)

\* the whole text must be one value
Complete(p) ==
  IF p.ok /\ SkipWs(p.rest) = <<>> THEN [ok |-> TRUE, v |-> p.v] ELSE [ok |-> FALSE, v |-> JUndef]

\* JSON.parse(text): ok = FALSE stands for the SyntaxError it throws
JSONParse(text) == Complete(ParseValue(text))

(***************************************************************************)
(* JSON.stringify(value, null, indent) over a heap: references are         *)
(* followed, holes print as null, array properties are not printed.        *)
(***************************************************************************)
RECURSIVE Spaces(_)
Spaces(n) == IF n <= 0 THEN <<>> ELSE <<WS>> \o Spaces(n - 1)

\* the line break and indentation before an item at nesting level lvl
Break(indent, lvl) == IF indent = 0 THEN <<>> ELSE <<NL>> \o Spaces(indent * lvl)

RECURSIVE Stringify(_, _, _, _), StringifyItems(_, _, _, _, _, _)

Stringify(h, v, indent, lvl) ==
  IF v.t = "ref" THEN Stringify(h, h[v.c], indent, lvl)
  ELSE IF v.t = "obj"
    THEN (IF v.ks = <<>> THEN <<LB, RB>>
          ELSE <<LB>> \o StringifyItems(h, v.ks, v.vs, indent, lvl + 1, 1)
                      \o Break(indent, lvl) \o <<RB>>)
  ELSE IF v.t = "arr"
    THEN (IF v.vs = <<>> THEN <<LK, RK>>
          ELSE <<LK>> \o StringifyItems(h, <<>>, v.vs, indent, lvl + 1, 1)
                      \o Break(indent, lvl) \o <<RK>>)
  ELSE IF v.t = "str" THEN <<S(v.s)>>
  ELSE IF v.t = "num" THEN <<N(DecStr(v.n))>>
  ELSE IF v.t = "bool" THEN (IF v.b THEN <<W("true")>> ELSE <<W("false")>>)
  ELSE <<W("null")>>

\* items i.. of an object (ks non-empty) or of an array (ks empty)
StringifyItems(h, ks, vs, indent, lvl, i) ==
  IF i > Len(vs) THEN <<>>
  ELSE Break(indent, lvl)
       \o (IF ks = <<>> THEN <<>>
           ELSE <<S(ks[i]), CO>> \o (IF indent = 0 THEN <<>> ELSE <<WS>>))
       \o Stringify(h, vs[i], indent, lvl)
       \o (IF i < Len(vs) THEN <<CM>> ELSE <<>>)
       \o StringifyItems(h, ks, vs, indent, lvl, i + 1)

\* the value with every reference replaced by the object it refers to
RECURSIVE Resolve(_, _)
Resolve(h, v) ==
  IF v.t = "ref" THEN Resolve(h, h[v.c])
  ELSE IF v.t = "obj" THEN JObj(v.ks, [i \in 1..Len(v.vs) |-> Resolve(h, v.vs[i])])
  ELSE IF v.t = "arr"
    THEN JArr([i \in 1..Len(v.vs) |-> Resolve(h, v.vs[i])], v.pk,
              [i \in 1..Len(v.pv) |-> Resolve(h, v.pv[i])])
  ELSE v

(***************************************************************************)
(* Optional values (T | null) and JavaScript truthiness.                   *)
(***************************************************************************)
Null == [null |-> TRUE]
Some(v) == [null |-> FALSE, v |-> v]

\* !!v for a JSON value or reference
Truthy(v) ==
  CASE v.t = "null" -> FALSE
    [] v.t = "undef" -> FALSE
    [] v.t = "bool" -> v.b
    [] v.t = "num" -> v.n # 0
    [] v.t = "str" -> v.s # ""
    [] OTHER -> TRUE

\* lodash isObject: an object or array (held inline or by reference)
IsObject(v) == v.t \in {"obj", "arr", "ref"}

(***************************************************************************)
(* lodash set(object, path, value), App.tsx line 154.                      *)
(***************************************************************************)
\* the characters of a path string, grouped into names, dots and brackets
PathLex ==
  ("a.b" :> <<"a", ".", "b">>) @@ ("a.c" :> <<"a", ".", "c">>)
  @@ ("x.y" :> <<"x", ".", "y">>) @@ ("n[1].k" :> <<"n", "[", "1", "]", ".", "k">>)
  @@ ("" :> <<>>)
PathChars(p) == IF p \in DOMAIN PathLex THEN PathLex[p] ELSE <<p>>

\* lodash stringToPath after its leading-dot rule: names and bracketed keys
\* become segments, a dot followed by a dot or by the end yields ''
RECURSIVE PathSegs(_, _)
PathSegs(toks, i) ==
  IF i > Len(toks) THEN <<>>
  ELSE IF toks[i] = "."
    THEN (IF i = Len(toks) \/ toks[i + 1] = "." THEN <<"">> ELSE <<>>) \o PathSegs(toks, i + 1)
  ELSE IF toks[i] = "[" /\ i + 2 <= Len(toks) /\ toks[i + 2] = "]"
    THEN <<toks[i + 1]>> \o PathSegs(toks, i + 3)
  ELSE IF toks[i] \in {"[", "]"} THEN PathSegs(toks, i + 1)
  ELSE <<toks[i]>> \o PathSegs(toks, i + 1)

StringToPath(p) ==
  LET toks == PathChars(p) IN
  (IF toks # <<>> /\ toks[1] = "." THEN <<"">> ELSE <<>>) \o PathSegs(toks, 1)

\* lodash isKey: a plain property name, or an own key of the object
IsKey(p, object) ==
  \/ Len(PathChars(p)) <= 1 /\ PathChars(p) \notin {<<".">>, <<"[">>, <<"]">>}
  \/ ~(\E i \in 1..Len(PathChars(p)) : PathChars(p)[i] \in {".", "["})
  \/ GetProp(object, p) # JUndef

CastPath(p, object) == IF IsKey(p, object) THEN <<p>> ELSE StringToPath(p)

\* the container at key path p inside the tree of one heap cell
RECURSIVE GetAt(_, _)
GetAt(tree, p) == IF p = <<>> THEN tree ELSE GetAt(GetProp(tree, Head(p)), Tail(p))

\* the tree with property k of the container at key path p set to v
RECURSIVE PutAt(_, _, _, _)
PutAt(tree, p, k, v) ==
  IF p = <<>> THEN PutProp(tree, k, v)
  ELSE PutProp(tree, Head(p), PutAt(GetProp(tree, Head(p)), Tail(p), k, v))

UnsafeKeys == {"__proto__", "constructor", "prototype"}

\* where a value just assigned at key of the container nested lives: in
\* its own cell when it is a reference, inside nested's cell otherwise
Child(nested, key, newValue) ==
  IF newValue.t = "ref"
    THEN [c |-> newValue.c, p |-> <<>>]
    ELSE [c |-> nested.c, p |-> Append(nested.p, key)]

\* NewValue without the isIndex test: every missing container is an object
NewValueObject(path, index, value, objValue) ==
  IF index = Len(path) THEN value
  ELSE IF IsObject(objValue) THEN objValue
  ELSE JObj(<<>>, <<>>)

\* the value baseSet assigns at path[index] when the property holds objValue
NewValue(path, index, value, objValue) ==
  IF index = Len(path) THEN value
  ELSE IF IsObject(objValue) THEN objValue
  ELSE IF IsIndex(path[index + 1]) THEN JArr(<<>>, <<>>, <<>>)
  ELSE JObj(<<>>, <<>>)

RECURSIVE BaseSet(_, _, _, _, _)

\* assignValue(nested, key, newValue); nested = nested[key]
Assign(h, nested, path, index, value, newValue) ==
  BaseSet([h EXCEPT ![nested.c] = PutAt(@, nested.p, path[index], newValue)],
          Child(nested, path[index], newValue), path, index + 1, value)

\* lodash baseSet's loop: nested is the container being written, as heap
\* cell plus key path inside it; objects reached by reference are written
\* in their own cell
BaseSet(h, nested, path, index, value) ==
  IF index > Len(path) THEN h
  ELSE IF path[index] \in UnsafeKeys THEN h
  ELSE Assign(h, nested, path, index, value,
              NewValue(path, index, value,
                       GetProp(GetAt(h[nested.c], nested.p), path[index])))

\* set(object, path, value): object is a reference or a primitive
LodashSet(h, object, p, value) ==
  IF object.t # "ref" THEN h
  ELSE BaseSet(h, [c |-> object.c, p |-> <<>>], CastPath(p, h[object.c]), 1, value)

(***************************************************************************)
(* Messages: sequences of text chunks.                                     *)
(***************************************************************************)
\* String.prototype.includes on chunk sequences
Includes(msg, needle) ==
  \E i \in 0..(Len(msg) - Len(needle)) : SubSeq(msg, i + 1, i + Len(needle)) = needle

EntityNotFound == <<"Requested entity was not found">>
MsgEmptyInput == <<"JSON input cannot be empty.">>
MsgInvalidJson == <<"Invalid JSON format. Please check your input.">>
MsgUnknown == <<"An unknown error occurred.">>
MsgKeyRevoked ==
  <<"The selected API key is invalid or has been revoked. Please select a different key.">>
MsgDialog == <<"Could not open the API key selection dialog.">>
MsgNoApiKey ==
  <<"API key is not configured. Please ensure the API_KEY environment variable is set.">>
MsgUnexpected == <<"An unexpected error occurred while analyzing the workflow.">>
GeminiPrefix == "Error analyzing workflow with Gemini: "

(***************************************************************************)
(* The analyzer boundary: analyzeWorkflow of services/geminiService.ts.    *)
(***************************************************************************)
\* a thrown JavaScript value: a primitive, or an object with an optional
\* nested error object; message is Null unless it is a string, status and
\* code are "" when absent
ErrDetails(message, status, code) == [message |-> message, status |-> status, code |-> code]
ThrownPrim == [obj |-> FALSE, error |-> Null, own |-> ErrDetails(Null, "", "")]
ThrownObj(error, own) == [obj |-> TRUE, error |-> error, own |-> own]
\* new Error(message)
JsError(message) == ThrownObj(Null, ErrDetails(Some(message), "", ""))

\* what JSON.parse and a property read of undefined throw
SyntaxError == JsError(<<"Unexpected token">>)
TypeError == JsError(<<"Cannot read properties of undefined">>)

\* the catch block of analyzeWorkflow: the message of the Error it rethrows
DetailedMessage(e, errorDetails) ==
  IF errorDetails.message # Null /\ errorDetails.message.v # <<>>
    THEN <<GeminiPrefix>> \o errorDetails.message.v
  ELSE IF errorDetails.status # ""
    THEN <<GeminiPrefix, errorDetails.status, " (Code: ",
           IF errorDetails.code # "" THEN errorDetails.code ELSE "N/A", ")">>
  ELSE IF e.own.message # Null THEN e.own.message.v
  ELSE MsgUnexpected

CaughtMessage(e) ==
  IF ~e.obj THEN MsgUnexpected
  ELSE DetailedMessage(e, IF e.error # Null THEN e.error.v ELSE e.own)

\* resultText.replace(/^fence-json\s*|fence$/g, '')
StripOpen(t) == IF t # <<>> /\ Head(t) = FenceOpen THEN SkipWs(Tail(t)) ELSE t
StripClose(t) == IF t # <<>> /\ t[Len(t)] = FenceClose THEN SubSeq(t, 1, Len(t) - 1) ELSE t
StripFence(t) == StripClose(StripOpen(t))

\* the characters of a string handed to JSON.parse, as tokens
StrLex ==
  ("2" :> <<N("2")>>) @@ ("3" :> <<N("3")>>) @@ ("true" :> <<W("true")>>)
  @@ ("{\"b\":1}" :> <<LB, S("b"), CO, N("1"), RB>>)
  @@ ("\"z\"" :> <<S("z")>>)
StrChars(str) == IF str \in DOMAIN StrLex THEN StrLex[str] ELSE <<W(str)>>

\* heap cells: the parsed original document, the working copy of the
\* patcher, and the object parsed from the newValue of the i-th issue
NvCell == <<"nv1", "nv2", "nv3">>
NvCells == {NvCell[i] : i \in 1..Len(NvCell)}
HeapCells == {"orig"} \cup NvCells

\* ParseNewValue without the JSON.parse: the string is kept as received
ParseNewValueSkipped(raw) == [ok |-> FALSE, v |-> JUndef]

\* JSON.parse(error.jsonModification.newValue) inside its try
ParseNewValue(raw) ==
  IF raw.t = "str" THEN JSONParse(StrChars(raw.s)) ELSE [ok |-> FALSE, v |-> JUndef]

\* NormalNodeId without the test for "": the nodeId is kept as received
NodeIdKept(nodeId) == nodeId

NormalNodeId(nodeId) == IF nodeId = JStr("") THEN JUndef ELSE nodeId

PostValue(error, jm, raw, parsed, i) ==
  [ id |-> GetProp(error, "id").s,
    nodeId |-> NormalNodeId(GetProp(error, "nodeId")),
    path |-> GetProp(jm, "path").s,
    newValue |-> IF ~parsed.ok THEN raw
                 ELSE IF IsContainer(parsed.v) THEN Ref(NvCell[i])
                 ELSE parsed.v,
    object |-> IF parsed.ok /\ IsContainer(parsed.v) THEN parsed.v ELSE JUndef,
    requiresUserInput |-> Truthy(GetProp(jm, "requiresUserInput")) ]

PostRaw(error, jm, raw, i) == PostValue(error, jm, raw, ParseNewValue(raw), i)
PostModification(error, jm, i) == PostRaw(error, jm, GetProp(jm, "newValue"), i)

\* the forEach body of analyzeWorkflow for the i-th element of errors:
\* nodeId "" becomes undefined, newValue is parsed or kept as it is; object
\* is the object the parse allocated, if any
PostProcess(error, i) == PostModification(error, GetProp(error, "jsonModification"), i)

\* analyzeWorkflow rejects with new Error(message)
AnalyzeFail(message) == [ok |-> FALSE, isError |-> TRUE, message |-> message, errors |-> <<>>]

\* result.errors.forEach(...); return result
Processed(errors) ==
  IF errors.t # "arr" THEN AnalyzeFail(CaughtMessage(TypeError))
  ELSE [ ok |-> TRUE, isError |-> FALSE, message |-> <<>>,
         errors |-> [i \in 1..Len(errors.vs) |-> PostProcess(errors.vs[i], i)] ]

\* Parsed with a payload that does not parse taken as a result without
\* issues
ParsedLenient(result) ==
  IF ~result.ok THEN Processed(JArr(<<>>, <<>>, <<>>))
  ELSE Processed(IF result.v.t = "obj" THEN GetProp(result.v, "errors") ELSE JUndef)

\* the try block after JSON.parse(cleanedJson)
Parsed(result) ==
  IF ~result.ok THEN AnalyzeFail(CaughtMessage(SyntaxError))
  ELSE Processed(IF result.v.t = "obj" THEN GetProp(result.v, "errors") ELSE JUndef)

\* analyzeWorkflow: keyConfigured is process.env.API_KEY being set, outcome
\* is what generateContent does: it returns a text or throws a value
analyzeWorkflow(keyConfigured, outcome) ==
  IF ~keyConfigured THEN AnalyzeFail(MsgNoApiKey)
  ELSE IF outcome.kind = "throw" THEN AnalyzeFail(CaughtMessage(outcome.e))
  ELSE Parsed(JSONParse(StripFence(Trim(outcome.text))))

(***************************************************************************)
(* The inputs of the model: what the user types or uploads, and what the   *)
(* generative service answers.                                             *)
(***************************************************************************)
TxtBlank == <<WS>>
TxtNotJson == <<W("not"), WS, W("json")>>
TxtAB == <<LB, S("a"), CO, WS, LB, S("b"), CO, WS, N("1"), RB, RB>>
TxtEmptyObj == <<LB, RB>>
TxtZero == <<N("0")>>
Texts == {TxtBlank, TxtNotJson, TxtAB, TxtEmptyObj, TxtZero}
\* contents of the files the user may drop
FileTexts == {TxtEmptyObj}

\* one element of errors in a response text; the display-only fields of the
\* schema (severity, description, impact, recommendation) are left out
IssueText(id, nodeId, path, newValue, requiresUserInput) ==
  << LB, S("id"), CO, S(id), CM, S("nodeId"), CO, S(nodeId), CM,
     S("jsonModification"), CO, LB, S("path"), CO, S(path), CM,
     S("newValue"), CO, S(newValue), CM,
     S("requiresUserInput"), CO, W(requiresUserInput), RB, RB >>

RECURSIVE JoinTexts(_)
JoinTexts(ts) ==
  IF ts = <<>> THEN <<>>
  ELSE IF Len(ts) = 1 THEN ts[1]
  ELSE ts[1] \o <<CM>> \o JoinTexts(Tail(ts))

\* a response text with the given errors (isValid stands for the other
\* display-only top-level fields)
ResponseText(issues) ==
  <<LB, S("isValid"), CO, W("false"), CM, S("errors"), CO, LK>> \o JoinTexts(issues) \o <<RK, RB>>

\* two fixes of one path and a fix that needs a secret
RespSamePath ==
  ResponseText(<< IssueText("e1", "n1", "a.b", "2", "false"),
                  IssueText("e2", "", "a.b", "3", "false"),
                  IssueText("e3", "n1", "x.y", "<KEY>", "true") >>)
\* a fix that writes an object, a fix below it, and a fix of a missing path
RespObject ==
  ResponseText(<< IssueText("e1", "n1", "a", "{\"b\":1}", "false"),
                  IssueText("e2", "n1", "a.c", "2", "false"),
                  IssueText("e3", "", "x.y", "z", "false") >>)
\* a fix whose path has an array index
RespIndex == ResponseText(<< IssueText("e1", "n1", "n[1].k", "true", "false") >>)
RespNoIssues == ResponseText(<<>>)
RespFenced == <<FenceOpen, NL>> \o RespNoIssues \o <<NL, FenceClose>>
RespNotJson == <<W("Sorry"), CM, WS, W("no")>>
Responses == {RespSamePath, RespObject, RespIndex, RespNoIssues, RespFenced, RespNotJson}

\* values generateContent may throw
Thrown ==
  { JsError(<<"Requested entity was not found", ".">>),
    JsError(<<>>),
    ThrownObj(Some(ErrDetails(Some(<<"quota exceeded">>), "RESOURCE_EXHAUSTED", "429")),
              ErrDetails(Null, "", "")),
    ThrownObj(Some(ErrDetails(Null, "UNAVAILABLE", "")), ErrDetails(Null, "", "")),
    ThrownPrim }

Outcomes ==
  {[kind |-> "response", text |-> t, e |-> ThrownPrim] : t \in Responses}
  \cup {[kind |-> "throw", text |-> <<>>, e |-> e] : e \in Thrown}

\* ids of collapsible sections
SectionIds == {"n1"}

(***************************************************************************)
(* The state of the App component.                                         *)
(***************************************************************************)
VARIABLES
  stage,                 \* 'input' | 'analyzing' | 'results'
  jsonInput,             \* the text of the textarea
  analysisResult,        \* Null or Some([errors |-> ...])
  apiError,              \* Null or Some(message)
  approvedFixes,         \* set of issue ids
  openSections,          \* function from section ids to BOOLEAN
  hasApiKey,
  originalWorkflow,      \* originalWorkflow.current: a JSON value or Ref("orig")
  heap,                  \* the objects of HeapCells
  correctedWorkflowJson, \* the memoized value: Null or Some(text)
  aistudio,              \* window.aistudio is defined
  keyCheck,              \* checkApiKey of the mount effect: "pending" | "done"
  selects,               \* openSelectKey dialogs not yet settled
  reads,                 \* contents of files whose FileReader has not fired onload
  pending,               \* analyzer requests in flight: the text each was sent
  download               \* the file handed to the browser by the last step, if any

vars ==
  << stage, jsonInput, analysisResult, apiError, approvedFixes, openSections, hasApiKey,
     originalWorkflow, heap, correctedWorkflowJson, aistudio, keyCheck, selects, reads,
     pending, download >>

EmptyHeap == [c \in HeapCells |-> JUndef]
\* the empty record {} of openSections
NoSections == [k \in {} |-> FALSE]

Init ==
  /\ stage = "input"
  /\ jsonInput = <<>>
  /\ analysisResult = Null
  /\ apiError = Null
  /\ approvedFixes = {}
  /\ openSections = NoSections
  /\ hasApiKey = FALSE
  /\ originalWorkflow = JNull
  /\ heap = EmptyHeap
  /\ correctedWorkflowJson = Null
  /\ aistudio \in BOOLEAN
  /\ keyCheck = "pending"
  /\ selects = 0
  /\ reads = <<>>
  /\ pending = <<>>
  /\ download = Null

(***************************************************************************)
(* The document patcher: the useMemo body of correctedWorkflowJson.        *)
(***************************************************************************)
\* the working cell holding a new object, or nothing for a primitive
Fresh(h, copy) ==
  IF IsContainer(copy)
    THEN [h |-> h @@ ("cw" :> copy), root |-> Ref("cw")]
    ELSE [h |-> h @@ ("cw" :> JUndef), root |-> copy]

\* DeepCopy without the copy: the patcher works on the original itself
DeepCopyAlias(h, v) == [h |-> h @@ ("cw" :> JUndef), root |-> v]

\* JSON.parse(JSON.stringify(v)): a new object in the working cell
DeepCopy(h, v) == Fresh(h, JSONParse(Stringify(h, v, 0, 0)).v)

\* ApplyFixes walking errors from its end to its start
RECURSIVE ApplyFixesBackwards(_, _, _, _, _)
ApplyFixesBackwards(h, correctedWorkflow, errors, approved, i) ==
  IF i > Len(errors) THEN h
  ELSE ApplyFixesBackwards(
         IF errors[Len(errors) + 1 - i].id \in approved
           THEN LodashSet(h, correctedWorkflow, errors[Len(errors) + 1 - i].path,
                          errors[Len(errors) + 1 - i].newValue)
           ELSE h,
         correctedWorkflow, errors, approved, i + 1)

\* errors.forEach from the i-th issue on
RECURSIVE ApplyFixes(_, _, _, _, _)
ApplyFixes(h, correctedWorkflow, errors, approved, i) ==
  IF i > Len(errors) THEN h
  ELSE ApplyFixes(
         IF errors[i].id \in approved
           THEN LodashSet(h, correctedWorkflow, errors[i].path, errors[i].newValue)
           ELSE h,
         correctedWorkflow, errors, approved, i + 1)

\* JSON.stringify(correctedWorkflow, null, 2); the working copy is dropped
Serialized(h, correctedWorkflow) ==
  [heap |-> [c \in HeapCells |-> h[c]], json |-> Some(Stringify(h, correctedWorkflow, 2, 0))]

Patched(copy, errors, approved) ==
  Serialized(ApplyFixes(copy.h, copy.root, errors, approved, 1), copy.root)

\* the memo body: the heap after it ran and the value it returns
Corrected(h, original, result, approved) ==
  IF ~Truthy(original) \/ result = Null THEN [heap |-> h, json |-> Null]
  ELSE Patched(DeepCopy(h, original), result.v.errors, approved)

\* the render after a change of approvedFixes or analysisResult
Rerender(memo) == heap' = memo.heap /\ correctedWorkflowJson' = memo.json

(***************************************************************************)
(* What is rendered: the handlers below are reachable only through the     *)
(* elements of the view that is on screen.                                 *)
(***************************************************************************)
\* InputView without the stage test
InputViewAnyStage == hasApiKey

InputView == hasApiKey /\ stage = "input"
\* ResultsView outside the hasApiKey conditional
ResultsViewNoGate == stage = "results" /\ analysisResult # Null

ResultsView == hasApiKey /\ stage = "results" /\ analysisResult # Null

\* RemoveAt leaving the entry in place: the settled request is outstanding
\* again
RemoveAtKeeps(q, i) == q

RemoveAt(q, i) == SubSeq(q, 1, i - 1) \o SubSeq(q, i + 1, Len(q))

(***************************************************************************)
(* Credential boundary.                                                    *)
(***************************************************************************)
\* the mount effect: hasSelectedApiKey settles with keySelected, or throws
checkApiKey(keySelected, throws) ==
  /\ keyCheck = "pending"
  /\ keyCheck' = "done"
  /\ hasApiKey' = IF ~aistudio THEN hasApiKey ELSE IF throws THEN FALSE ELSE keySelected
  /\ UNCHANGED << stage, jsonInput, analysisResult, apiError, approvedFixes, openSections,
                  originalWorkflow, heap, correctedWorkflowJson, aistudio, selects, reads,
                  pending >>
  /\ download' = Null

\* click on Select API Key: handleSelectKey up to its await
handleSelectKey ==
  /\ ~hasApiKey
  /\ aistudio
  /\ selects < MaxSelects
  /\ selects' = selects + 1
  /\ UNCHANGED << stage, jsonInput, analysisResult, apiError, approvedFixes, openSections,
                  hasApiKey, originalWorkflow, heap, correctedWorkflowJson, aistudio, keyCheck,
                  reads, pending >>
  /\ download' = Null

\* handleSelectKey after its await: openSelectKey resolved or rejected
openSelectKeySettled(resolved) ==
  /\ selects > 0
  /\ selects' = selects - 1
  /\ IF resolved
       THEN hasApiKey' = TRUE /\ UNCHANGED apiError
       ELSE apiError' = Some(MsgDialog) /\ UNCHANGED hasApiKey
  /\ UNCHANGED << stage, jsonInput, analysisResult, approvedFixes, openSections,
                  originalWorkflow, heap, correctedWorkflowJson, aistudio, keyCheck, reads,
                  pending >>
  /\ download' = Null

(***************************************************************************)
(* Input.                                                                  *)
(***************************************************************************)
\* onChange of the textarea
setJsonInput(text) ==
  /\ InputView
  /\ text # jsonInput
  /\ jsonInput' = text
  /\ UNCHANGED << stage, analysisResult, apiError, approvedFixes, openSections, hasApiKey,
                  originalWorkflow, heap, correctedWorkflowJson, aistudio, keyCheck, selects,
                  reads, pending >>
  /\ download' = Null

\* a file dropped on the dropzone: readAsText is started
onDrop(content) ==
  /\ InputView
  /\ Len(reads) < MaxReads
  /\ reads' = Append(reads, content)
  /\ UNCHANGED << stage, jsonInput, analysisResult, apiError, approvedFixes, openSections,
                  hasApiKey, originalWorkflow, heap, correctedWorkflowJson, aistudio, keyCheck,
                  selects, pending >>
  /\ download' = Null

\* reader.onload of the i-th outstanding read
readerOnload(i) ==
  /\ i \in 1..Len(reads)
  /\ jsonInput' = reads[i]
  /\ reads' = RemoveAt(reads, i)
  /\ UNCHANGED << stage, analysisResult, apiError, approvedFixes, openSections, hasApiKey,
                  originalWorkflow, heap, correctedWorkflowJson, aistudio, keyCheck, selects,
                  pending >>
  /\ download' = Null

(***************************************************************************)
(* handleAnalyze, up to its await (lines 88-110).                          *)
(***************************************************************************)
\* originalWorkflow.current = parsedJson: objects go to the heap
\* StoreOriginal without the assignment: the ref keeps the document it held
StoreOriginalKept(h, parsedJson) ==
  [c \in HeapCells |-> IF c = "orig" THEN h["orig"] ELSE JUndef]

StoreOriginal(h, parsedJson) ==
  [c \in HeapCells |-> IF c = "orig" /\ IsContainer(parsedJson) THEN parsedJson ELSE JUndef]

\* Accepted without setApiError(null)
AcceptedKeepsError(parsedJson, original) ==
  /\ originalWorkflow' = original
  /\ stage' = "analyzing"
  /\ analysisResult' = Null
  /\ approvedFixes' = {}
  /\ openSections' = NoSections
  /\ pending' = Append(pending, jsonInput)
  /\ Rerender(Corrected(StoreOriginal(heap, parsedJson), original, Null, {}))
  /\ UNCHANGED apiError

\* Accepted without setApprovedFixes(new Set())
AcceptedKeepsFixes(parsedJson, original) ==
  /\ originalWorkflow' = original
  /\ stage' = "analyzing"
  /\ apiError' = Null
  /\ analysisResult' = Null
  /\ openSections' = NoSections
  /\ pending' = Append(pending, jsonInput)
  /\ Rerender(Corrected(StoreOriginal(heap, parsedJson), original, Null, approvedFixes))
  /\ UNCHANGED approvedFixes

\* lines 97-110: the parsed document is stored, the state is cleared and the
\* request is issued
Accepted(parsedJson, original) ==
  /\ originalWorkflow' = original
  /\ stage' = "analyzing"
  /\ apiError' = Null
  /\ analysisResult' = Null
  /\ approvedFixes' = {}
  /\ openSections' = NoSections
  /\ pending' = Append(pending, jsonInput)
  /\ Rerender(Corrected(StoreOriginal(heap, parsedJson), original, Null, {}))

\* Rejected with the clearing of lines 105-107 done before the return
RejectedClears(message) ==
  /\ apiError' = Some(message)
  /\ analysisResult' = Null
  /\ approvedFixes' = {}
  /\ openSections' = NoSections
  /\ correctedWorkflowJson' = Null
  /\ UNCHANGED << stage, originalWorkflow, heap, pending >>

\* lines 90 and 99: the error is recorded and the handler returns
Rejected(message) ==
  /\ apiError' = Some(message)
  /\ UNCHANGED << stage, analysisResult, approvedFixes, openSections, originalWorkflow,
                  heap, correctedWorkflowJson, pending >>

\* Validated without the return of the catch block: the handler goes on
ValidatedNoReturn(parsed) ==
  /\ stage' = "analyzing"
  /\ apiError' = Null
  /\ analysisResult' = Null
  /\ approvedFixes' = {}
  /\ openSections' = NoSections
  /\ pending' = Append(pending, jsonInput)
  /\ IF parsed.ok
       THEN /\ originalWorkflow' = (IF IsContainer(parsed.v) THEN Ref("orig") ELSE parsed.v)
            /\ Rerender([heap |-> StoreOriginal(heap, parsed.v), json |-> Null])
       ELSE /\ UNCHANGED originalWorkflow
            /\ Rerender([heap |-> [heap EXCEPT !["nv1"] = JUndef, !["nv2"] = JUndef,
                                                !["nv3"] = JUndef],
                          json |-> Null])

\* the try/catch around JSON.parse, lines 94-101
Validated(parsed) ==
  IF ~parsed.ok THEN Rejected(MsgInvalidJson)
  ELSE Accepted(parsed.v, IF IsContainer(parsed.v) THEN Ref("orig") ELSE parsed.v)

handleAnalyze ==
  /\ IF Trim(jsonInput) = <<>>
       THEN Rejected(MsgEmptyInput)
       ELSE Validated(JSONParse(jsonInput))
  /\ UNCHANGED << jsonInput, hasApiKey, aistudio, keyCheck, selects, reads >>
  /\ download' = Null

\* click on Analyze Workflow: the button is in the input view and is
\* disabled while the text is blank
AnalyzeClick ==
  /\ InputView
  /\ Trim(jsonInput) # <<>>
  /\ Len(pending) < MaxPending
  /\ handleAnalyze

(***************************************************************************)
(* handleAnalyze after its await (lines 111-122): the i-th request in      *)
(* flight settles.                                                         *)
(***************************************************************************)
\* the issue as App reads it
Issue(e) ==
  [ id |-> e.id, nodeId |-> e.nodeId, path |-> e.path, newValue |-> e.newValue,
    requiresUserInput |-> e.requiresUserInput ]

\* the heap once the result's newValue objects exist and the previous
\* result's are gone
StoreResult(h, errors) ==
  [c \in HeapCells |->
     IF c = "orig" THEN h[c]
     ELSE IF \E j \in 1..Len(errors) : NvCell[j] = c
       THEN errors[CHOOSE j \in 1..Len(errors) : NvCell[j] = c].object
     ELSE JUndef]

\* Succeeded without setAnalysisResult(result)
SucceededDropsResult(result, errors) ==
  /\ stage' = "results"
  /\ UNCHANGED << analysisResult, heap, correctedWorkflowJson, apiError, hasApiKey >>

\* Succeeded without setStage('results')
SucceededKeepsStage(result, errors) ==
  /\ analysisResult' = result
  /\ Rerender(Corrected(StoreResult(heap, errors), originalWorkflow, result, approvedFixes))
  /\ UNCHANGED << stage, apiError, hasApiKey >>

\* lines 111-112
Succeeded(result, errors) ==
  /\ analysisResult' = result
  /\ stage' = "results"
  /\ Rerender(Corrected(StoreResult(heap, errors), originalWorkflow, result, approvedFixes))
  /\ UNCHANGED << apiError, hasApiKey >>

\* Failed with an equality test in place of includes
FailedExactMatch(errorMessage) ==
  /\ IF errorMessage = EntityNotFound
       THEN apiError' = Some(MsgKeyRevoked) /\ hasApiKey' = FALSE
       ELSE apiError' = Some(errorMessage) /\ UNCHANGED hasApiKey
  /\ stage' = "input"
  /\ UNCHANGED << analysisResult, heap, correctedWorkflowJson >>

\* lines 115-121
Failed(errorMessage) ==
  /\ IF Includes(errorMessage, EntityNotFound)
       THEN apiError' = Some(MsgKeyRevoked) /\ hasApiKey' = FALSE
       ELSE apiError' = Some(errorMessage) /\ UNCHANGED hasApiKey
  /\ stage' = "input"
  /\ UNCHANGED << analysisResult, heap, correctedWorkflowJson >>

\* the continuation of handleAnalyze for the outcome r of analyzeWorkflow
Settled(r) ==
  IF r.ok
    THEN Succeeded(Some([errors |-> [j \in 1..Len(r.errors) |-> Issue(r.errors[j])]]),
                   r.errors)
    ELSE Failed(IF r.isError THEN r.message ELSE MsgUnknown)

analyzeSettled(i, keyConfigured, outcome) ==
  /\ i \in 1..Len(pending)
  /\ pending' = RemoveAt(pending, i)
  /\ Settled(analyzeWorkflow(keyConfigured, outcome))
  /\ UNCHANGED << jsonInput, approvedFixes, openSections, originalWorkflow, aistudio,
                  keyCheck, selects, reads >>
  /\ download' = Null

(***************************************************************************)
(* Fix selection, export and the results view.                             *)
(***************************************************************************)
Errors == IF analysisResult = Null THEN <<>> ELSE analysisResult.v.errors

\* setApprovedFixes(newSet) and the render that follows
setApprovedFixes(newSet) ==
  /\ approvedFixes' = newSet
  /\ Rerender(Corrected(heap, originalWorkflow, analysisResult, newSet))

\* Toggled without the delete branch
ToggledAddOnly(prev, errorId) == prev \cup {errorId}

\* the updater of toggleFix
Toggled(prev, errorId) == IF errorId \in prev THEN prev \ {errorId} ELSE prev \cup {errorId}

\* the handler toggleFix
toggleFix(errorId) ==
  /\ setApprovedFixes(Toggled(approvedFixes, errorId))
  /\ UNCHANGED << stage, jsonInput, analysisResult, apiError, openSections, hasApiKey,
                  originalWorkflow, aistudio, keyCheck, selects, reads, pending >>
  /\ download' = Null

\* click on Accept Fix: the button of an issue that requires user input is
\* disabled
\* AcceptFixClick without the disabled Manual Input button: every issue offers
\* the toggle
AcceptFixClickAny(errorId) ==
  /\ ResultsView
  /\ toggleFix(errorId)

AcceptFixClick(errorId) ==
  /\ ResultsView
  /\ \E j \in 1..Len(Errors) : Errors[j].id = errorId /\ ~Errors[j].requiresUserInput
  /\ toggleFix(errorId)

\* AutoFixableErrorIds without its filter
AllErrorIds(errors) == {errors[j].id : j \in 1..Len(errors)}

\* the set built by approveAllFixes
AutoFixableErrorIds(errors) ==
  {errors[j].id : j \in {k \in 1..Len(errors) : ~errors[k].requiresUserInput}}

\* the handler approveAllFixes
approveAllFixes ==
  /\ IF analysisResult = Null
       THEN UNCHANGED << approvedFixes, heap, correctedWorkflowJson >>
       ELSE setApprovedFixes(AutoFixableErrorIds(Errors))
  /\ UNCHANGED << stage, jsonInput, analysisResult, apiError, openSections, hasApiKey,
                  originalWorkflow, aistudio, keyCheck, selects, reads, pending >>
  /\ download' = Null

\* click on Accept All Automated Fixes, shown when there are issues
AcceptAllClick ==
  /\ ResultsView
  /\ Len(Errors) > 0
  /\ approveAllFixes

\* the handler downloadCorrectedJson
downloadCorrectedJson ==
  /\ IF correctedWorkflowJson = Null
       THEN download' = Null
       ELSE download' = correctedWorkflowJson
  /\ UNCHANGED << stage, jsonInput, analysisResult, apiError, approvedFixes, openSections,
                  hasApiKey, originalWorkflow, heap, correctedWorkflowJson, aistudio,
                  keyCheck, selects, reads, pending >>

\* DownloadClick without the approvedFixes.size test
DownloadClickAnySet ==
  /\ ResultsView
  /\ correctedWorkflowJson # Null /\ correctedWorkflowJson.v # <<>>
  /\ downloadCorrectedJson

\* click on Download: the section is rendered when the corrected JSON is
\* truthy and fixes are approved
DownloadClick ==
  /\ ResultsView
  /\ correctedWorkflowJson # Null /\ correctedWorkflowJson.v # <<>>
  /\ approvedFixes # {}
  /\ downloadCorrectedJson

\* click on Analyze Another Workflow
analyzeAnother ==
  /\ ResultsView
  /\ stage' = "input"
  /\ UNCHANGED << jsonInput, analysisResult, apiError, approvedFixes, openSections,
                  hasApiKey, originalWorkflow, heap, correctedWorkflowJson, aistudio,
                  keyCheck, selects, reads, pending >>
  /\ download' = Null

\* toggleSection (no element of the view is bound to it; taken as callable
\* where the sections are on screen)
toggleSection(id) ==
  /\ ResultsView
  /\ openSections' =
       [k \in DOMAIN openSections \cup {id} |->
          IF k = id THEN ~(id \in DOMAIN openSections /\ openSections[id])
          ELSE openSections[k]]
  /\ UNCHANGED << stage, jsonInput, analysisResult, apiError, approvedFixes, hasApiKey,
                  originalWorkflow, heap, correctedWorkflowJson, aistudio, keyCheck, selects,
                  reads, pending >>
  /\ download' = Null

IssueIds == {"e1", "e2", "e3"}

Next ==
  \/ \E keySelected \in BOOLEAN, throws \in BOOLEAN : checkApiKey(keySelected, throws)
  \/ handleSelectKey
  \/ \E resolved \in BOOLEAN : openSelectKeySettled(resolved)
  \/ \E text \in Texts : setJsonInput(text)
  \/ \E content \in FileTexts : onDrop(content)
  \/ \E i \in 1..MaxReads : readerOnload(i)
  \/ AnalyzeClick
  \/ \E i \in 1..MaxPending, keyConfigured \in BOOLEAN, outcome \in Outcomes :
       analyzeSettled(i, keyConfigured, outcome)
  \/ \E errorId \in IssueIds : AcceptFixClick(errorId)
  \/ AcceptAllClick
  \/ DownloadClick
  \/ analyzeAnother
  \/ \E id \in SectionIds : toggleSection(id)

Spec == Init /\ [][Next]_vars

\* the promise of analyzeWorkflow settles: generateContent resolves or rejects
analyzeCompletes ==
  \E i \in 1..MaxPending, keyConfigured \in BOOLEAN, outcome \in Outcomes :
    analyzeSettled(i, keyConfigured, outcome)

\* the application when every analyzer call eventually completes
LiveSpec == Spec /\ WF_vars(analyzeCompletes)

(***************************************************************************)
(* The fix selection store on its own: the handlers toggleFix and          *)
(* approveAllFixes called with any id, from the state of a fresh mount or  *)
(* from the state a successful analysis leaves.                            *)
(***************************************************************************)
\* the state after text was submitted and the analyzer answered r
AnalysedMemo(text, original, result, memo) ==
  /\ stage = "results"
  /\ jsonInput = text
  /\ analysisResult = result
  /\ originalWorkflow = original
  /\ heap = memo.heap
  /\ correctedWorkflowJson = memo.json

AnalysedResult(text, parsedJson, original, result, errors) ==
  AnalysedMemo(text, original, result,
               Corrected(StoreResult(StoreOriginal(EmptyHeap, parsedJson), errors),
                         original, result, {}))

AnalysedDoc(text, parsedJson, r) ==
  AnalysedResult(text, parsedJson, IF IsContainer(parsedJson) THEN Ref("orig") ELSE parsedJson,
                 Some([errors |-> [j \in 1..Len(r.errors) |-> Issue(r.errors[j])]]), r.errors)

Analysed(text, r) == r.ok /\ AnalysedDoc(text, JSONParse(text).v, r)

Mounted ==
  /\ stage = "input"
  /\ jsonInput = <<>>
  /\ analysisResult = Null
  /\ originalWorkflow = JNull
  /\ heap = EmptyHeap
  /\ correctedWorkflowJson = Null

StoreInit ==
  /\ \/ Mounted
     \/ \E text \in {t \in Texts : JSONParse(t).ok}, response \in Responses :
          Analysed(text, analyzeWorkflow(TRUE, [kind |-> "response", text |-> response,
                                                e |-> ThrownPrim]))
  /\ apiError = Null
  /\ approvedFixes = {}
  /\ openSections = NoSections
  /\ hasApiKey = TRUE
  /\ aistudio = TRUE
  /\ keyCheck = "done"
  /\ selects = 0
  /\ reads = <<>>
  /\ pending = <<>>
  /\ download = Null

StoreNext ==
  \/ \E errorId \in IssueIds : toggleFix(errorId)
  \/ approveAllFixes

StoreSpec == StoreInit /\ [][StoreNext]_vars

(***************************************************************************)
(* Properties.                                                             *)
(***************************************************************************)
ErrorIds == {Errors[j].id : j \in 1..Len(Errors)}
\* ids of the issues whose patch does not require user input
AutoIds == {Errors[j].id : j \in {k \in 1..Len(Errors) : Errors[k].requiresUserInput = FALSE}}
\* ids of the issues whose patch requires user input
InputIds == {Errors[j].id : j \in {k \in 1..Len(Errors) : Errors[k].requiresUserInput = TRUE}}

\* the outcomes analyzeWorkflow can have for a request
Results == {analyzeWorkflow(k, o) : k \in BOOLEAN, o \in Outcomes}
Failures == {r \in Results : ~r.ok}

\* the step is the continuation of handleAnalyze for the outcome r
SettledWith(r) ==
  /\ \E i \in 1..Len(pending) : pending' = RemoveAt(pending, i)
  /\ Settled(r)
  /\ UNCHANGED << jsonInput, approvedFixes, openSections, originalWorkflow, aistudio,
                  keyCheck, selects, reads >>
  /\ download' = Null

\* C1: computing the corrected document never changes the stored original
\* document: the original changes only when an accepted submit replaces it
C1_OriginalPreserved ==
  [][ \/ stage = "input" /\ stage' = "analyzing"
      \/ originalWorkflow' = originalWorkflow /\ heap'["orig"] = heap["orig"] ]_vars

\* a corrected document that differs from the original has been computed
C1_Witness ==
  /\ originalWorkflow = Ref("orig")
  /\ approvedFixes # {}
  /\ correctedWorkflowJson # Null
  /\ correctedWorkflowJson.v # Stringify(heap, originalWorkflow, 2, 0)

\* C2: approveAllFixes with a result present sets approvedFixes to exactly
\* the ids of the issues that do not require user input, whatever it held
\* before: ids that require user input are absent afterwards, and a second
\* call changes nothing
C2_ApproveAllExact ==
  [][ (approveAllFixes /\ analysisResult # Null) =>
        /\ approvedFixes' = AutoIds
        /\ approvedFixes' \cap InputIds = {}
        /\ analysisResult' = analysisResult
        /\ (approvedFixes = AutoIds => approvedFixes' = approvedFixes) ]_vars

\* approveAllFixes has produced its set in a result that has an issue
\* requiring user input
C2_Witness ==
  /\ analysisResult # Null
  /\ InputIds # {}
  /\ approvedFixes = AutoIds
  /\ approvedFixes # {}

\* C3 as stated: while analyzing, result, error, approved set and section
\* state are all absent or empty
C3_ClearedWhileAnalyzing ==
  stage = "analyzing" =>
    /\ analysisResult = Null
    /\ apiError = Null
    /\ approvedFixes = {}
    /\ openSections = NoSections

\* C3 amended: an accepted submit clears result, error, approved set and
\* section state; while analyzing, result, approved set and section state
\* stay absent or empty, and the only error that can appear is the one of a
\* failed credential dialog
C3_ClearedOnEntry ==
  [][ /\ (AnalyzeClick /\ stage' = "analyzing") => apiError' = Null
      /\ stage' = "analyzing" =>
           /\ analysisResult' = Null
           /\ approvedFixes' = {}
           /\ openSections' = NoSections
           /\ apiError' \in {Null, Some(MsgDialog)} ]_vars

\* a request is in flight and nothing of an earlier run is left
C3_Witness ==
  /\ stage = "analyzing"
  /\ pending # <<>>
  /\ apiError = Null
  /\ analysisResult = Null

\* C4: a submit of text that does not parse as JSON records an error, stays
\* in stage input, issues no analyzer call and keeps the input text
C4_InvalidJsonRejected ==
  [][ (AnalyzeClick /\ ~JSONParse(jsonInput).ok) =>
        /\ apiError' # Null
        /\ apiError'.v # <<>>
        /\ stage = "input"
        /\ stage' = "input"
        /\ pending' = pending
        /\ jsonInput' = jsonInput ]_vars

\* the text "not json" has been submitted and rejected
C4_Witness ==
  /\ jsonInput = TxtNotJson
  /\ apiError = Some(MsgInvalidJson)
  /\ stage = "input"
  /\ pending = <<>>

\* C5: an analyzer failure whose message contains the entity-not-found text
\* clears hasApiKey, returns to stage input and records an error; any other
\* analyzer failure leaves hasApiKey as it was
C5_RevokedKey ==
  [][ \A r \in Failures :
        SettledWith(r) =>
          IF Includes(r.message, EntityNotFound)
            THEN hasApiKey' = FALSE /\ stage' = "input" /\ apiError' # Null
                 /\ apiError'.v # <<>>
            ELSE hasApiKey' = hasApiKey ]_vars

\* the analyzer failed with the entity-not-found message
C5_Witness ==
  /\ apiError = Some(MsgKeyRevoked)
  /\ ~hasApiKey
  /\ stage = "input"

\* C6: every analyzer failure ends in stage input with a non-empty error
\* message and no result stored; unless the key was rejected the message is
\* the failure's own
C6_FailureRecorded ==
  [][ \A r \in Failures :
        SettledWith(r) =>
          /\ stage' = "input"
          /\ analysisResult' = Null
          /\ apiError' # Null
          /\ apiError'.v # <<>>
          /\ (~Includes(r.message, EntityNotFound) /\ r.message # <<>>)
               => apiError' = Some(r.message) ]_vars

\* C7: Analyze Another Workflow clears the stored document, the result, the
\* approved set and the section state, and leaves hasApiKey as it was
C7_AnalyzeAnotherClears ==
  [][ analyzeAnother =>
        /\ stage' = "input"
        /\ originalWorkflow' = JNull
        /\ analysisResult' = Null
        /\ approvedFixes' = {}
        /\ openSections' = NoSections
        /\ hasApiKey' = hasApiKey ]_vars

\* C8: the approved set holds only ids of issues of the stored result, and
\* is empty when no result is stored
C8_ApprovedSubset == approvedFixes \subseteq ErrorIds

\* fixes are approved, also after the return to the input stage
C8_Witness ==
  /\ approvedFixes # {}
  /\ stage = "input"

\* C9: at most one analyzer request is in flight; a request is started only
\* in stage input with the credential present, and no submit is enabled
\* while analyzing
C9_OneInFlight ==
  /\ [](Len(pending) <= 1)
  /\ [](stage = "analyzing" => ~ENABLED AnalyzeClick)
  /\ [][ Len(pending') > Len(pending) => (stage = "input" /\ hasApiKey) ]_vars

\* a request is in flight
C9_Witness ==
  /\ Len(pending) = 1
  /\ stage = "analyzing"

\* C10: a response is committed only for the one, latest request, and it
\* overwrites nothing that an interaction after that request's submit wrote:
\* stage and result are still the ones the submit left, and an error is
\* replaced only if none was recorded since
C10_NoStaleCommit ==
  [][ Len(pending') < Len(pending) =>
        /\ Len(pending) = 1
        /\ stage = "analyzing"
        /\ analysisResult = Null
        /\ (apiError' # apiError => apiError = Null) ]_vars

\* C11: while analyzing, the stage changes only by the completion of the
\* outstanding analyzer call, to results on success and to input on failure,
\* and a completion always leaves analyzing; when analyzer calls eventually
\* complete, analyzing is eventually left
C11_LeavesAnalyzingByCompletion ==
  /\ [][ (stage = "analyzing" /\ stage' # stage) => \E r \in Results : SettledWith(r) ]_vars
  /\ [][ \A r \in Results :
           (stage = "analyzing" /\ SettledWith(r)) =>
             stage' = IF r.ok THEN "results" ELSE "input" ]_vars
  /\ ((stage = "analyzing" /\ pending # <<>>) ~> stage # "analyzing")

\* an analysis has completed with success
C11_Witness ==
  /\ stage = "results"
  /\ pending = <<>>
  /\ analysisResult # Null

\* the result r is the stored one: the same issues in the same order
Stored(r) ==
  /\ analysisResult' # Null
  /\ Len(analysisResult'.v.errors) = Len(r.errors)
  /\ \A j \in 1..Len(r.errors) :
       /\ analysisResult'.v.errors[j].id = r.errors[j].id
       /\ analysisResult'.v.errors[j].path = r.errors[j].path
       /\ analysisResult'.v.errors[j].newValue = r.errors[j].newValue

\* C12 as stated: a successful analyzer call leaves stage results, the
\* returned result stored, no error recorded and an empty approved set, and
\* a result is stored whenever the stage is results
C12_SuccessState ==
  /\ [][ \A r \in Results :
           (SettledWith(r) /\ r.ok) =>
             /\ stage' = "results"
             /\ Stored(r)
             /\ apiError' = Null
             /\ approvedFixes' = {} ]_vars
  /\ [](stage = "results" => analysisResult # Null)

\* C12 amended: a successful analyzer call leaves stage results, the returned
\* result stored and an empty approved set; it does not write the error,
\* which is absent unless a credential dialog failed during the run; a
\* result is stored whenever the stage is results
C12_SuccessStateKeepsError ==
  /\ [][ \A r \in Results :
           (SettledWith(r) /\ r.ok) =>
             /\ stage' = "results"
             /\ Stored(r)
             /\ apiError' = apiError
             /\ apiError' \in {Null, Some(MsgDialog)}
             /\ approvedFixes' = {} ]_vars
  /\ [](stage = "results" => analysisResult # Null)

\* a result with issues has just been stored, nothing approved, no error
C12_Witness ==
  /\ stage = "results"
  /\ Len(Errors) > 0
  /\ apiError = Null
  /\ approvedFixes = {}
  /\ correctedWorkflowJson # Null

\* C13: while hasApiKey is false no submit, toggle, approve-all, download or
\* new-analysis action is enabled and no analyzer request starts; hasApiKey
\* becomes true only by the key check or by a settled key-selection dialog
C13_CredentialGate ==
  /\ [](~hasApiKey =>
          /\ ~ENABLED AnalyzeClick
          /\ ~ENABLED (\E errorId \in IssueIds : AcceptFixClick(errorId))
          /\ ~ENABLED AcceptAllClick
          /\ ~ENABLED DownloadClick
          /\ ~ENABLED analyzeAnother)
  /\ [][ ~hasApiKey =>
           /\ Len(pending') <= Len(pending)
           /\ approvedFixes' = approvedFixes
           /\ download' = Null ]_vars
  /\ [][ (~hasApiKey /\ hasApiKey') => (keyCheck' # keyCheck \/ selects' < selects) ]_vars

\* the credential was lost while a result with approved fixes is stored
C13_Witness ==
  /\ ~hasApiKey
  /\ stage = "results"
  /\ approvedFixes # {}
  /\ correctedWorkflowJson # Null

\* C14: toggleFix(id) flips the membership of id in the approved set and of
\* no other id, for any id, an issue of the stored result or not, and
\* toggling the same id again gives back the set
C14_ToggleInvolution ==
  [][ \A id \in IssueIds :
        toggleFix(id) =>
          /\ (id \in approvedFixes') = (id \notin approvedFixes)
          /\ approvedFixes' \ {id} = approvedFixes \ {id}
          /\ Toggled(approvedFixes', id) = approvedFixes ]_vars

\* an id that is no issue of the stored result has been toggled on
C14_Witness ==
  /\ analysisResult # Null
  /\ approvedFixes # {}
  /\ approvedFixes \cap ErrorIds = {}

\* C15: the corrected document depends on the original, the issue list and
\* the approved set only, not on the toggles made before: once an id has
\* been toggled, computing again with the approved set of before gives the
\* document of before
C15_HistoryIndependent ==
  [][ \A id \in IssueIds :
        toggleFix(id) =>
          Corrected(heap', originalWorkflow, analysisResult, approvedFixes).json
            = correctedWorkflowJson ]_vars

\* the corrected document and the stored original as JSON values
Doc == JSONParse(correctedWorkflowJson.v).v
Orig == Resolve(heap, originalWorkflow)

\* the stored result as analyzeWorkflow returned it, and the heap with its
\* newValue objects as they were returned
AsReturned ==
  CHOOSE r \in Results : r.ok /\ [j \in 1..Len(r.errors) |-> Issue(r.errors[j])] = Errors
AsReturnedHeap == StoreResult(heap, AsReturned.errors)

\* the stored result without the issues that are not approved
IsApproved(e) == e.id \in approvedFixes
OnlyApproved == Some([errors |-> SelectSeq(Errors, IsApproved)])

\* the key path p leads to an existing location of the tree
RECURSIVE Has(_, _)
Has(tree, p) ==
  \/ p = <<>>
  \/ /\ IsContainer(tree)
     /\ GetProp(tree, Head(p)) # JUndef
     /\ Has(GetProp(tree, Head(p)), Tail(p))

Front(p) == SubSeq(p, 1, Len(p) - 1)
Last(p) == p[Len(p)]

\* the document in which only the location at key path p differs from the
\* tree, holding v
With(tree, p, v) == PutAt(tree, Front(p), Last(p), v)

\* C16: an approved patch whose path is an existing location of the original
\* puts its newValue there and leaves the rest of the document as in the
\* original ({"a": {"b": 1}} with a.b := 2 gives {"a": {"b": 2}}), and the
\* issues that are not approved have no effect: the document is the one
\* computed from the approved issues alone
C16_ApprovedPatchApplied ==
  (analysisResult # Null /\ originalWorkflow.t = "ref") =>
    /\ \A j \in 1..Len(Errors) :
         (/\ approvedFixes = {Errors[j].id}
          /\ StringToPath(Errors[j].path) # <<>>
          /\ Has(Orig, StringToPath(Errors[j].path))) =>
           Doc = With(Orig, StringToPath(Errors[j].path),
                      Resolve(AsReturnedHeap, Errors[j].newValue))
    /\ (Orig = JObj(<<"a">>, <<JObj(<<"b">>, <<JNum(1)>>)>>) /\ Len(Errors) > 0
        /\ approvedFixes = {"e1"} /\ Errors[1].path = "a.b" /\ Errors[1].newValue = JNum(2))
         => Doc = JObj(<<"a">>, <<JObj(<<"b">>, <<JNum(2)>>)>>)
    /\ correctedWorkflowJson
         = Corrected(AsReturnedHeap, originalWorkflow, OnlyApproved, approvedFixes).json

\* the container expected at key k of the tree on the way to key next
Inner(tree, k, next) ==
  IF IsContainer(GetProp(tree, k)) THEN GetProp(tree, k)
  ELSE IF IsIndex(next) THEN JArr(<<>>, <<>>, <<>>)
  ELSE JObj(<<>>, <<>>)

\* the tree with v at key path p, every missing container on the way
\* created: an array before a numeric segment, an object before a name
RECURSIVE Grown(_, _, _)
Grown(tree, p, v) ==
  IF Len(p) = 1 THEN PutProp(tree, p[1], v)
  ELSE PutProp(tree, p[1], Grown(Inner(tree, p[1], p[2]), Tail(p), v))

\* C17: an approved patch whose path has missing intermediate locations
\* creates each of them, an array for a numeric segment and an object for a
\* name, and writes newValue at the path; {} with x.y := "z" gives
\* {"x": {"y": "z"}}
C17_CreatesIntermediates ==
  (analysisResult # Null /\ originalWorkflow.t = "ref") =>
    /\ \A j \in 1..Len(Errors) :
         (/\ approvedFixes = {Errors[j].id}
          /\ Len(StringToPath(Errors[j].path)) > 1
          /\ ~Has(Orig, Front(StringToPath(Errors[j].path)))) =>
           correctedWorkflowJson.v
             = Stringify(EmptyHeap,
                         Grown(Orig, StringToPath(Errors[j].path),
                               Resolve(AsReturnedHeap, Errors[j].newValue)),
                         2, 0)
    /\ (Orig = JObj(<<>>, <<>>) /\ Len(Errors) = 3 /\ approvedFixes = {"e3"}
        /\ Errors[3].path = "x.y" /\ Errors[3].newValue = JStr("z"))
         => Doc = JObj(<<"x">>, <<JObj(<<"y">>, <<JStr("z")>>)>>)

\* the patch n[1].k := true has been applied to a document without n
C17_Witness ==
  /\ analysisResult # Null
  /\ originalWorkflow.t = "ref"
  /\ approvedFixes = {"e1"}
  /\ Len(Errors) = 1
  /\ Errors[1].path = "n[1].k"
  /\ Doc = PutProp(Orig, "n", JArr(<<JNull, JObj(<<"k">>, <<JBool(TRUE)>>)>>, <<>>, <<>>))

\* the tree after the approved patches from the j-th issue on were written
\* one after the other, in the order of errors
RECURSIVE InOrder(_, _)
InOrder(tree, j) ==
  IF j > Len(Errors) THEN tree
  ELSE InOrder(IF Errors[j].id \in approvedFixes /\ StringToPath(Errors[j].path) # <<>>
                 THEN Grown(tree, StringToPath(Errors[j].path),
                            Resolve(heap, Errors[j].newValue))
                 ELSE tree,
               j + 1)

\* the j-th issue is the last approved one with its path
LastOfPath(j) ==
  /\ Errors[j].id \in approvedFixes
  /\ \A k \in (j + 1)..Len(Errors) :
       Errors[k].id \in approvedFixes => Errors[k].path # Errors[j].path

\* C18: the corrected document is the original with the approved patches
\* written in the order of errors, whatever the order of the approvals; of
\* two approved patches of one path the later one in errors is the one whose
\* newValue the document holds
C18_LastWriteWins ==
  (analysisResult # Null /\ originalWorkflow.t = "ref") =>
    /\ correctedWorkflowJson.v = Stringify(EmptyHeap, InOrder(Orig, 1), 2, 0)
    /\ \A i \in 1..Len(Errors), j \in 1..Len(Errors) :
         (/\ i < j
          /\ Errors[i].id \in approvedFixes
          /\ Errors[i].path = Errors[j].path
          /\ LastOfPath(j)) =>
           /\ Has(Doc, StringToPath(Errors[j].path))
           /\ GetAt(Doc, StringToPath(Errors[j].path)) = Resolve(heap, Errors[j].newValue)

\* both patches of a.b are approved and the document holds the second value
C18_Witness ==
  /\ analysisResult # Null
  /\ originalWorkflow.t = "ref"
  /\ {"e1", "e2"} \subseteq approvedFixes
  /\ Len(Errors) = 3
  /\ Errors[1].path = "a.b" /\ Errors[2].path = "a.b"
  /\ Errors[1].newValue # Errors[2].newValue
  /\ GetAt(Doc, <<"a", "b">>) = Errors[2].newValue

\* C19: the corrected document is absent exactly when no original document
\* or no analysis result is stored
C19_PresentIffBoth ==
  (correctedWorkflowJson = Null) <=> (originalWorkflow = JNull \/ analysisResult = Null)

\* the step is a call of toggleFix or of approveAllFixes
Selection == approveAllFixes \/ \E id \in IssueIds : toggleFix(id)

\* C20: toggleFix and approveAllFixes leave the stage, the stored original,
\* the stored analysis result with the values of its patches, the error and
\* hasApiKey as they were, and approveAllFixes without a stored result
\* changes nothing at all
C20_SelectionFrame ==
  [][ Selection =>
        /\ stage' = stage
        /\ originalWorkflow' = originalWorkflow
        /\ heap'["orig"] = heap["orig"]
        /\ analysisResult' = analysisResult
        /\ \A c \in NvCells : heap'[c] = heap[c]
        /\ apiError' = apiError
        /\ hasApiKey' = hasApiKey
        /\ (approveAllFixes /\ analysisResult = Null) => UNCHANGED vars ]_vars

\* C21: the corrected JSON is offered for download only in stage results
\* with a corrected document present and an approved fix; the handler does
\* nothing when there is no corrected document; the file handed to the
\* browser is the corrected document printed with an indent of two spaces
C21_DownloadGuarded ==
  /\ [](ENABLED DownloadClick =>
          /\ hasApiKey
          /\ stage = "results"
          /\ correctedWorkflowJson # Null
          /\ approvedFixes # {})
  /\ [](correctedWorkflowJson = Null => ~ENABLED (downloadCorrectedJson /\ vars' # vars))
  /\ [][ download' # Null =>
           /\ download' = correctedWorkflowJson
           /\ download'.v = Stringify(EmptyHeap, Doc, 2, 0)
           /\ UNCHANGED << correctedWorkflowJson, approvedFixes, analysisResult, stage >> ]_vars

\* a corrected document that differs from the original has been downloaded
C21_Witness ==
  /\ download # Null
  /\ download = correctedWorkflowJson
  /\ approvedFixes # {}
  /\ download.v # Stringify(heap, originalWorkflow, 2, 0)

\* C22: an accepted submit issues exactly one analyzer call, for the text
\* submitted; nothing but a submit issues a call; a failed call is removed
\* and not issued again, so that no call is outstanding after a failure
C22_NoRetry ==
  /\ [][ (AnalyzeClick /\ stage' = "analyzing") => pending' = Append(pending, jsonInput) ]_vars
  /\ [][ Len(pending') > Len(pending) => (AnalyzeClick /\ stage' = "analyzing") ]_vars
  /\ [][ \A r \in Failures :
           SettledWith(r) => (Len(pending') = Len(pending) - 1 /\ pending' = <<>>) ]_vars

\* an analyzer call has failed and none is outstanding
C22_Witness ==
  /\ apiError = Some(MsgNoApiKey)
  /\ stage = "input"
  /\ pending = <<>>
  /\ originalWorkflow # JNull

\* the payload of a response, and the outcomes whose payload is an object
\* with an array of issues
Payload(outcome) == JSONParse(StripFence(Trim(outcome.text)))
Issues(outcome) == GetProp(Payload(outcome).v, "errors")
WithIssues ==
  {o \in Outcomes : /\ o.kind = "response"
                    /\ Payload(o).ok
                    /\ Payload(o).v.t = "obj"
                    /\ Issues(o).t = "arr"}

\* the newValue string of an issue of a payload
RawNewValue(issue) == GetProp(GetProp(issue, "jsonModification"), "newValue")
\* what is expected in its place: its parse, or the string itself
Reparsed(raw) ==
  IF JSONParse(StrChars(raw.s)).ok THEN JSONParse(StrChars(raw.s)).v ELSE raw

\* C23: when the analyzer answers with a payload of issues, the analysis
\* succeeds whatever the newValue strings are, and the newValue of each
\* stored issue is the JSON parse of the string received, or the string
\* itself when it does not parse
C23_NewValueReparsed ==
  [][ \A o \in WithIssues :
        analyzeSettled(1, TRUE, o) =>
          /\ stage' = "results"
          /\ analysisResult' # Null
          /\ Len(analysisResult'.v.errors) = Len(Issues(o).vs)
          /\ \A j \in 1..Len(Issues(o).vs) :
               Resolve(heap', analysisResult'.v.errors[j].newValue)
                 = Reparsed(RawNewValue(Issues(o).vs[j])) ]_vars

\* a result holds a parsed number and a string that did not parse
C23_Witness ==
  /\ stage = "results"
  /\ Len(Errors) = 3
  /\ Errors[1].newValue = JNum(2)
  /\ Errors[3].newValue = JStr("<KEY>")

\* the responses that are not JSON once the fence is stripped
Unparseable == {o \in Outcomes : o.kind = "response" /\ ~Payload(o).ok}

\* C24: a response that is not JSON after the code fence is stripped makes
\* analyzeWorkflow fail, and the session returns to stage input with an
\* error message and no result stored; a fenced JSON response is accepted
C24_UnparseableResponseFails ==
  /\ [][ \A o \in Unparseable :
           analyzeSettled(1, TRUE, o) =>
             /\ ~analyzeWorkflow(TRUE, o).ok
             /\ stage' = "input"
             /\ apiError' # Null
             /\ apiError'.v # <<>>
             /\ analysisResult' = Null ]_vars
  /\ [][ analyzeSettled(1, TRUE, [kind |-> "response", text |-> RespFenced, e |-> ThrownPrim])
           => (stage' = "results" /\ analysisResult' # Null) ]_vars

\* the analyzer answered with text that is not JSON
C24_Witness ==
  /\ stage = "input"
  /\ analysisResult = Null
  /\ pending = <<>>
  /\ apiError = Some(<<GeminiPrefix>> \o SyntaxError.own.message.v)

\* C25: no issue of a stored result has the nodeId ""; when a payload of
\* issues is received, a nodeId "" becomes absent and any other nodeId is
\* stored as received
C25_EmptyNodeIdAbsent ==
  /\ [](\A j \in 1..Len(Errors) : Errors[j].nodeId # JStr(""))
  /\ [][ \A o \in WithIssues :
           analyzeSettled(1, TRUE, o) =>
             \A j \in 1..Len(Issues(o).vs) :
               analysisResult'.v.errors[j].nodeId
                 = IF GetProp(Issues(o).vs[j], "nodeId") = JStr("")
                     THEN JUndef
                     ELSE GetProp(Issues(o).vs[j], "nodeId") ]_vars

\* a result holds an issue without nodeId next to one with a nodeId
C25_Witness ==
  /\ analysisResult # Null
  /\ \E j \in 1..Len(Errors) : Errors[j].nodeId = JUndef
  /\ \E j \in 1..Len(Errors) : Errors[j].nodeId = JStr("n1")

\* the document does not hold the value v at the key path p
Free(doc, p, v) == Has(doc, p) => GetAt(doc, p) # v

\* the text, when there is one, holds the newValue of no issue that requires
\* user input at that issue's path
NoPlaceholder(text) ==
  text # Null =>
    \A j \in 1..Len(Errors) :
      Errors[j].requiresUserInput = TRUE =>
        Free(JSONParse(text.v).v, StringToPath(Errors[j].path),
             Resolve(heap, Errors[j].newValue))

\* C26: no approved id belongs to an issue that requires user input, and
\* neither the corrected nor the downloaded document holds the value of such
\* an issue at its path
C26_NoUserInputApproved ==
  /\ approvedFixes \cap InputIds = {}
  /\ NoPlaceholder(correctedWorkflowJson)
  /\ NoPlaceholder(download)

\* every automatic fix of a result with a user-input issue is approved and
\* the corrected document is downloaded
C26_Witness ==
  /\ InputIds # {}
  /\ approvedFixes = AutoIds
  /\ approvedFixes # {}
  /\ download # Null
  /\ download = correctedWorkflowJson

\* C27: a result is stored only by the completion of the one pending
\* request, and the original document is then the parse of the text of that
\* request; the original document does not change while a result stays
\* stored; with no fix approved the corrected document is the original one
C27_OriginalOfRequest ==
  /\ [][ (Len(pending') < Len(pending) /\ analysisResult' # Null) =>
           /\ pending = << pending[1] >>
           /\ JSONParse(pending[1]).ok
           /\ Orig' = JSONParse(pending[1]).v ]_vars
  /\ [][ (analysisResult = Null /\ analysisResult' # Null) =>
           Len(pending') < Len(pending) ]_vars
  /\ [][ (analysisResult # Null /\ analysisResult' # Null) => Orig' = Orig ]_vars
  /\ []((analysisResult # Null /\ correctedWorkflowJson # Null /\ approvedFixes = {})
          => Doc = Orig)

\* a result is stored for the document of the request while the text box
\* holds another text
C27_Witness ==
  /\ analysisResult # Null
  /\ Len(Errors) > 0
  /\ Orig = JSONParse(TxtAB).v
  /\ jsonInput # TxtAB

\* the state a rejected submit leaves alone, with the given message recorded
OnlyError(message) ==
  /\ apiError' = Some(message)
  /\ UNCHANGED << stage, originalWorkflow, heap, analysisResult, approvedFixes,
                  openSections, hasApiKey, correctedWorkflowJson, pending, jsonInput >>

\* C28: a submit of a text that does not parse records the invalid-JSON
\* message and leaves stage, original document, result, approved set,
\* sections and credential flag as they were; the handler run on a blank text
\* has no outcome other than recording the empty-input message with the same
\* state left alone
C28_RejectedSubmitFrame ==
  /\ [][ (AnalyzeClick /\ ~JSONParse(jsonInput).ok) => OnlyError(MsgInvalidJson) ]_vars
  /\ [](Trim(jsonInput) = <<>> =>
          /\ ENABLED handleAnalyze
          /\ ~ENABLED (handleAnalyze /\ ~OnlyError(MsgEmptyInput)))

\* a text that does not parse was submitted while a result and approved
\* fixes of an earlier analysis were stored
C28_Witness ==
  /\ stage = "input"
  /\ jsonInput = TxtNotJson
  /\ apiError = Some(MsgInvalidJson)
  /\ analysisResult # Null
  /\ approvedFixes # {}
  /\ originalWorkflow.t = "ref"

====
